---- MODULE Spec2Model ----
(***************************************************************************)
(* LwJSON (lwjson.c / lwjson.h): a model of the token arena, the scanner   *)
(* primitives, the tree-building parser lwjson_parse and the path search   *)
(* lwjson_find.                                                            *)
(*                                                                         *)
(* Texts are sequences of one-character strings; the character at index    *)
(* Len(s)+1 is the terminating NUL.  A char pointer is an index into the   *)
(* text (1-based), the null char pointer is NULL.  A token pointer is      *)
(* FirstRef (&lw->first_token), i in 1..tokens_len (&lw->tokens[i-1]) or   *)
(* NULL.  The members of the union u are kept as separate fields: the code *)
(* only reads the member that matches the token's type or a member of a    *)
(* freshly zeroed token.  A real is <<n, d, e>>, the exact value           *)
(* n / d * 10^e; rounding and overflow of the floating-point accumulator   *)
(* are not modelled.                                                       *)
(***************************************************************************)
EXTENDS Integers, Sequences, FiniteSets, TLC

\* ------------------------------------------------------------------ bounds
MaxLen == 4
MaxTokens == 2
MaxCalls == 3

\* ------------------------------------------------------ program constants
NULL == 0
FirstRef == -1

LWJSON_TYPE_STRING == 0
LWJSON_TYPE_NUM_INT == 1
LWJSON_TYPE_NUM_REAL == 2
LWJSON_TYPE_OBJECT == 3
LWJSON_TYPE_ARRAY == 4
LWJSON_TYPE_TRUE == 5
LWJSON_TYPE_FALSE == 6
LWJSON_TYPE_NULL == 7

lwjsonOK == 0
lwjsonERR == 1
lwjsonERRJSON == 2
lwjsonERRMEM == 3

\* ------------------------------------------------------------- characters
NUL == "NUL"
NullStr == <<"NULLPTR">>

\* ASCII code of the characters the model uses
Ord(c) ==
    CASE c = NUL -> 0
      [] c = "\t" -> 9
      [] c = "\n" -> 10
      [] c = "\f" -> 12
      [] c = "\r" -> 13
      [] c = " " -> 32
      [] c = "\"" -> 34
      [] c = "#" -> 35
      [] c = "+" -> 43
      [] c = "," -> 44
      [] c = "-" -> 45
      [] c = "." -> 46
      [] c = "0" -> 48
      [] c = "1" -> 49
      [] c = "2" -> 50
      [] c = "3" -> 51
      [] c = "4" -> 52
      [] c = "5" -> 53
      [] c = "6" -> 54
      [] c = "7" -> 55
      [] c = "8" -> 56
      [] c = "9" -> 57
      [] c = ":" -> 58
      [] c = "E" -> 69
      [] c = "[" -> 91
      [] c = "\\" -> 92
      [] c = "]" -> 93
      [] c = "a" -> 97
      [] c = "b" -> 98
      [] c = "c" -> 99
      [] c = "d" -> 100
      [] c = "e" -> 101
      [] c = "f" -> 102
      [] c = "l" -> 108
      [] c = "n" -> 110
      [] c = "r" -> 114
      [] c = "s" -> 115
      [] c = "t" -> 116
      [] c = "u" -> 117
      [] c = "x" -> 120
      [] c = "{" -> 123
      [] c = "}" -> 125

\* *s for a char pointer s into the null-terminated text str
CharAt(str, i) == IF i >= 1 /\ i <= Len(str) THEN str[i] ELSE NUL

IsDigit(c) == Ord(c) >= 48 /\ Ord(c) <= 57

\* the test of line 60
IsBlank(c) == c = " " \/ c = "\t" \/ c = "\r" \/ c = "\n" \/ c = "\f"

\* ---------------------------------------------------------- prv_skip_blank
\* the scan of lines 59-63: first index at or after i that is not a blank
RECURSIVE SkipScan(_, _)
SkipScan(str, i) == IF IsBlank(CharAt(str, i)) THEN SkipScan(str, i + 1) ELSE i

\* lines 56-71 for a non-null pointer: *p is written only when a non-blank,
\* non-NUL character is found (line 64); at the NUL it is left where it was
prv_skip_blank(str, p) ==
    LET s == SkipScan(str, p)
    IN  [res |-> lwjsonOK, p |-> IF CharAt(str, s) # NUL THEN s ELSE p]

\* -------------------------------------------------------- prv_parse_string
\* the loop of lines 96-108: s is the scan pointer, prev_ch the previous
\* character, len the count; ok = FALSE is the return of line 98
RECURSIVE StringScan(_, _, _, _)
StringScan(str, s, prev_ch, len) ==
    IF CharAt(str, s) = NUL
    THEN [ok |-> FALSE, s |-> s, len |-> len]
    ELSE IF CharAt(str, s) = "\"" /\ prev_ch # "\\"
         THEN [ok |-> TRUE, s |-> s + 1, len |-> len]
         ELSE StringScan(str, s + 1, CharAt(str, s), len + 1)

\* lines 81-118; pout0/poutlen0 are the values *pout and *poutlen hold
\* before the call, the result's pout/poutlen what they hold after it
prv_parse_string(str, p, pout0, poutlen0) ==
    LET p1 == prv_skip_blank(str, p).p
    IN  IF CharAt(str, p1) # "\""
        THEN [res |-> lwjsonERRJSON, p |-> p1, pout |-> pout0, poutlen |-> poutlen0]
        ELSE LET sc == StringScan(str, p1 + 1, NUL, 0)
             IN  IF ~sc.ok
                 THEN [res |-> lwjsonERRJSON, p |-> p1, pout |-> p1 + 1, poutlen |-> poutlen0]
                 ELSE LET s2 == IF CharAt(str, sc.s) = "\"" THEN sc.s + 1 ELSE sc.s
                      IN  [res |-> lwjsonOK, p |-> prv_skip_blank(str, s2).p,
                           pout |-> p1 + 1, poutlen |-> sc.len]

\* ------------------------------------------------- prv_parse_property_name
\* lines 127-143
prv_parse_property_name(str, p, name0, namelen0) ==
    LET r == prv_parse_string(str, p, name0, namelen0)
    IN  IF r.res # lwjsonOK
        THEN r
        ELSE IF CharAt(str, r.p) # ":"
             THEN [r EXCEPT !.res = lwjsonERRJSON]
             ELSE [r EXCEPT !.p = prv_skip_blank(str, r.p + 1).p]

\* -------------------------------------------------------- prv_parse_number
\* the digit loops of lines 175-177, 187-189 and 207-209: val accumulates
\* val * 10 + digit, pow is 10 to the number of digits read
RECURSIVE DigitScan(_, _, _, _)
DigitScan(str, s, val, pow) ==
    IF IsDigit(CharAt(str, s))
    THEN DigitScan(str, s + 1, val * 10 + (Ord(CharAt(str, s)) - 48), pow * 10)
    ELSE [s |-> s, val |-> val, pow |-> pow]

\* the test of lines 169-171, as written: the third disjunct asks for a
\* character that is both below '0' and above '9'
NumberStartInvalid(str, s) ==
    \/ CharAt(str, s) = NUL
    \/ Ord(CharAt(str, s)) < 48
    \/ Ord(CharAt(str, s)) > 57
    \/ (CharAt(str, s) = "0"
        /\ (Ord(CharAt(str, s + 1)) < 48 /\ Ord(CharAt(str, s + 1)) > 57))

\* prv_parse_number is split at its three parts; out0 = [type, num_int,
\* num_real] holds the values of *tout, *iout and *fout before the call,
\* the result carries their values after it.

\* the returns of lines 166, 172, 184 and 203
NumberFail(p1, out0) ==
    [res |-> lwjsonERRJSON, p |-> p1, type |-> out0.type,
     num_int |-> out0.num_int, num_real |-> out0.num_real]

\* lines 217-231: num = n / d * 10^e, negated when is_minus
NumberResult(s, type, is_minus, n, d, e, out0) ==
    [res |-> lwjsonOK, p |-> s, type |-> type,
     num_int |-> IF type = LWJSON_TYPE_NUM_INT
                 THEN (IF is_minus THEN 0 - n ELSE n) ELSE out0.num_int,
     num_real |-> IF type = LWJSON_TYPE_NUM_REAL
                  THEN <<(IF is_minus THEN 0 - n ELSE n), d, e>> ELSE out0.num_real]

\* lines 206-215: ep is the scan of the exponent's digits; num is divided
\* or multiplied by 10 exp_cnt times
NumberExpApply(ep, is_minus_exp, is_minus, n, d, out0) ==
    NumberResult(ep.s, LWJSON_TYPE_NUM_REAL, is_minus, n, d,
                 IF is_minus_exp THEN 0 - ep.val ELSE ep.val, out0)

\* lines 198-201: the pointer after the exponent's optional '-' and '+'
ExpSignEnd(str, s) ==
    IF CharAt(str, s) = "-"
    THEN (IF CharAt(str, s + 1) = "+" THEN s + 2 ELSE s + 1)
    ELSE (IF CharAt(str, s) = "+" THEN s + 1 ELSE s)

\* lines 202-204: s3 is the pointer after the sign
NumberExpDigits(str, s3, p1, is_minus_exp, is_minus, n, d, out0) ==
    IF ~IsDigit(CharAt(str, s3))
    THEN NumberFail(p1, out0)
    ELSE NumberExpApply(DigitScan(str, s3, 0, 1), is_minus_exp, is_minus, n, d, out0)

\* lines 192-216: s is the pointer after the integer and fractional parts
NumberExponent(str, s, p1, type, is_minus, n, d, out0) ==
    IF CharAt(str, s) = "e" \/ CharAt(str, s) = "E"
    THEN NumberExpDigits(str, ExpSignEnd(str, s + 1), p1,
                         CharAt(str, s + 1) = "-", is_minus, n, d, out0)
    ELSE NumberResult(s, type, is_minus, n, d, 0, out0)

\* NumberFracApply without the assignment of line 181
NumberFracApply_IntType(str, p1, ip, fp, is_minus, out0) ==
    NumberExponent(str, fp.s, p1, LWJSON_TYPE_NUM_INT, is_minus,
                   ip.val * fp.pow + fp.val, fp.pow, out0)

\* lines 181-190: fp is the scan of the digits after the decimal point
NumberFracApply(str, p1, ip, fp, is_minus, out0) ==
    NumberExponent(str, fp.s, p1, LWJSON_TYPE_NUM_REAL, is_minus,
                   ip.val * fp.pow + fp.val, fp.pow, out0)

\* lines 174-191: ip is the scan of the digits of the integer part
NumberFraction(str, p1, ip, is_minus, out0) ==
    IF CharAt(str, ip.s) = "."
    THEN IF ~IsDigit(CharAt(str, ip.s + 1))
         THEN NumberFail(p1, out0)
         ELSE NumberFracApply(str, p1, ip, DigitScan(str, ip.s + 1, 0, 1), is_minus, out0)
    ELSE NumberExponent(str, ip.s, p1, LWJSON_TYPE_NUM_INT, is_minus, ip.val, 1, out0)

\* lines 164-177: p1 is *p after prv_skip_blank
NumberStart(str, p1, out0) ==
    IF CharAt(str, p1) = NUL
    THEN NumberFail(p1, out0)
    ELSE IF CharAt(str, p1) = "-"
         THEN IF NumberStartInvalid(str, p1 + 1)
              THEN NumberFail(p1, out0)
              ELSE NumberFraction(str, p1, DigitScan(str, p1 + 1, 0, 1), TRUE, out0)
         ELSE IF NumberStartInvalid(str, p1)
              THEN NumberFail(p1, out0)
              ELSE NumberFraction(str, p1, DigitScan(str, p1, 0, 1), FALSE, out0)

\* lines 153-232
prv_parse_number(str, p, type0, int0, real0) ==
    NumberStart(str, prv_skip_blank(str, p).p,
                [type |-> type0, num_int |-> int0, num_real |-> real0])

\* ----------------------------------------------------------------- tokens
\* an all-zero lwjson_token_t (memset 0x00)
ZeroToken ==
    [next |-> NULL, parent |-> NULL, type |-> 0,
     token_name |-> NULL, token_name_len |-> 0,
     token_value |-> NULL, token_value_len |-> 0,
     num_real |-> <<0, 1, 0>>, num_int |-> 0, first_child |-> NULL]

\* the token a token pointer refers to, in instance lw with arena tokens
Tok(lw, tokens, r) == IF r = FirstRef THEN lw.first_token ELSE tokens[r]

\* prv_alloc_token without the memset of line 45
prv_alloc_token_NoZero(lw, tokens) ==
    IF lw.next_free_token_pos < lw.tokens_len
    THEN [lw |-> [lw EXCEPT !.next_free_token_pos = @ + 1],
          tokens |-> tokens,
          t |-> lw.next_free_token_pos + 1]
    ELSE [lw |-> lw, tokens |-> tokens, t |-> NULL]

\* lines 42-49: the new instance, the new arena and the returned pointer
prv_alloc_token(lw, tokens) ==
    IF lw.next_free_token_pos < lw.tokens_len
    THEN [lw |-> [lw EXCEPT !.next_free_token_pos = @ + 1],
          tokens |-> [tokens EXCEPT ![lw.next_free_token_pos + 1] = ZeroToken],
          t |-> lw.next_free_token_pos + 1]
    ELSE [lw |-> lw, tokens |-> tokens, t |-> NULL]

\* ------------------------------------------------------------ lwjson_parse
\* The state of a running lwjson_parse: the instance lw, the arena tokens,
\* the locals p, to, first_check, res, and ret = TRUE once `goto ret` or
\* a return was taken.

\* the token a pointer refers to / a store through a pointer
TokOf(ps, r) == Tok(ps.lw, ps.tokens, r)

PutTok(ps, r, tk) ==
    IF r = FirstRef
    THEN [ps EXCEPT !.lw.first_token = tk]
    ELSE [ps EXCEPT !.tokens[r] = tk]

\* line 389: the closing delimiter the current container is compared with
ClosingOf(type) == IF type = LWJSON_TYPE_OBJECT THEN "}" ELSE "]"

\* line 427: the token of the chain starting at c whose next is NULL
RECURSIVE LastSibling(_, _)
LastSibling(ps, c) ==
    IF TokOf(ps, c).next = NULL THEN c ELSE LastSibling(ps, TokOf(ps, c).next)

\* lines 422-429: append t to the child list of the container to
LinkChild(ps, t) ==
    IF TokOf(ps, ps.to).first_child = NULL
    THEN PutTok(ps, ps.to, [TokOf(ps, ps.to) EXCEPT !.first_child = t])
    ELSE LET c == LastSibling(ps, TokOf(ps, ps.to).first_child)
         IN  PutTok(ps, c, [TokOf(ps, c) EXCEPT !.next = t])

\* strncmp(p, word, Len(word)) == 0
StrNCmpEq(str, p, word) == \A i \in 1..Len(word) : CharAt(str, p + i - 1) = word[i]

\* lines 490-513: what follows a scalar value
AfterValue(str, ps) ==
    LET p1 == prv_skip_blank(str, ps.p).p
        c == CharAt(str, p1)
    IN  IF c = NUL \/ (c # "," /\ c # "]" /\ c # "}")
        THEN [ps EXCEPT !.p = p1, !.res = lwjsonERRJSON, !.ret = TRUE]
        ELSE IF c = ","
             THEN [ps EXCEPT !.p = p1 + 1, !.res = lwjsonOK]
             ELSE [ps EXCEPT !.p = p1, !.res = lwjsonOK]

\* lines 431-488 for the keyword cases: word is true, false or null
KeywordValue(str, ps, t, word, type) ==
    IF StrNCmpEq(str, ps.p, word)
    THEN AfterValue(str, [PutTok(ps, t, [TokOf(ps, t) EXCEPT !.type = type])
                            EXCEPT !.p = ps.p + Len(word)])
    ELSE [ps EXCEPT !.res = lwjsonERRJSON, !.ret = TRUE]

\* lines 431-513: the switch on *p and the check of what follows the value;
\* t is the new token, already linked
ValueSwitch(str, ps, t) ==
    LET c == CharAt(str, ps.p)
        tk == TokOf(ps, t)
    IN  CASE c = "{" \/ c = "[" ->
               [PutTok(ps, t, [tk EXCEPT
                    !.type = IF c = "{" THEN LWJSON_TYPE_OBJECT ELSE LWJSON_TYPE_ARRAY,
                    !.next = ps.to])
                 EXCEPT !.to = t, !.p = ps.p + 1]
          [] c = "\"" ->
               LET r == prv_parse_string(str, ps.p, tk.token_value, tk.token_value_len)
                   tk1 == [tk EXCEPT !.token_value = r.pout, !.token_value_len = r.poutlen]
               IN  IF r.res = lwjsonOK
                   THEN AfterValue(str, [PutTok(ps, t, [tk1 EXCEPT !.type = LWJSON_TYPE_STRING])
                                           EXCEPT !.p = r.p, !.res = r.res])
                   ELSE [PutTok(ps, t, tk1) EXCEPT !.p = r.p, !.res = r.res, !.ret = TRUE]
          [] c = "t" -> KeywordValue(str, ps, t, <<"t", "r", "u", "e">>, LWJSON_TYPE_TRUE)
          [] c = "f" -> KeywordValue(str, ps, t, <<"f", "a", "l", "s", "e">>, LWJSON_TYPE_FALSE)
          [] c = "n" -> KeywordValue(str, ps, t, <<"n", "u", "l", "l">>, LWJSON_TYPE_NULL)
          [] OTHER ->
               IF c = "-" \/ IsDigit(c)
               THEN LET r == prv_parse_number(str, ps.p, tk.type, tk.num_int, tk.num_real)
                    IN  IF r.res # lwjsonOK
                        THEN [ps EXCEPT !.p = r.p, !.res = lwjsonERRJSON, !.ret = TRUE]
                        ELSE AfterValue(str,
                               [PutTok(ps, t, [tk EXCEPT !.type = r.type,
                                                         !.num_int = r.num_int,
                                                         !.num_real = r.num_real])
                                  EXCEPT !.p = r.p])
               ELSE [ps EXCEPT !.res = lwjsonERRJSON, !.ret = TRUE]

\* lines 404-513: allocate a token, read the property name when the
\* current container is not an array, link the token, read the value
NewValue(str, ps) ==
    LET a == prv_alloc_token(ps.lw, ps.tokens)
        t == a.t
        ps1 == [ps EXCEPT !.lw = a.lw, !.tokens = a.tokens]
    IN  IF t = NULL
        THEN [ps EXCEPT !.res = lwjsonERRMEM, !.ret = TRUE]
        ELSE IF TokOf(ps1, ps1.to).type # LWJSON_TYPE_ARRAY
             THEN IF CharAt(str, ps1.p) # "\""
                  THEN [ps1 EXCEPT !.res = lwjsonERRJSON, !.ret = TRUE]
                  ELSE LET r == prv_parse_property_name(str, ps1.p,
                                    TokOf(ps1, t).token_name, TokOf(ps1, t).token_name_len)
                           ps2 == [PutTok(ps1, t, [TokOf(ps1, t) EXCEPT
                                          !.token_name = r.pout,
                                          !.token_name_len = r.poutlen])
                                     EXCEPT !.p = r.p, !.res = r.res]
                       IN  IF r.res # lwjsonOK
                           THEN [ps2 EXCEPT !.ret = TRUE]
                           ELSE ValueSwitch(str, LinkChild(ps2, t), t)
             ELSE ValueSwitch(str, LinkChild(ps1, t), t)

\* FirstCheck without the ++p of line 380
FirstCheck_NoAdvance(str, ps) ==
    LET c == CharAt(str, ps.p)
    IN  IF c = "{"
        THEN [ps EXCEPT !.first_check = FALSE,
                        !.lw.first_token.type = LWJSON_TYPE_OBJECT]
        ELSE IF c = "["
             THEN [ps EXCEPT !.first_check = FALSE,
                             !.lw.first_token.type = LWJSON_TYPE_ARRAY]
             ELSE [ps EXCEPT !.first_check = FALSE, !.res = lwjsonERRMEM, !.ret = TRUE]

\* lines 370-382: the first non-blank character selects the root's type
FirstCheck(str, ps) ==
    LET c == CharAt(str, ps.p)
    IN  IF c = "{"
        THEN [ps EXCEPT !.first_check = FALSE, !.p = ps.p + 1,
                        !.lw.first_token.type = LWJSON_TYPE_OBJECT]
        ELSE IF c = "["
             THEN [ps EXCEPT !.first_check = FALSE, !.p = ps.p + 1,
                             !.lw.first_token.type = LWJSON_TYPE_ARRAY]
             ELSE [ps EXCEPT !.first_check = FALSE, !.res = lwjsonERRMEM, !.ret = TRUE]

\* lines 388-402: the current container's closing delimiter
CloseContainer(str, ps) ==
    LET parent == TokOf(ps, ps.to).next
        ps1 == [PutTok(ps, ps.to, [TokOf(ps, ps.to) EXCEPT !.next = NULL])
                  EXCEPT !.to = parent, !.p = ps.p + 1]
    IN  IF parent = NULL
        THEN LET p2 == prv_skip_blank(str, ps1.p).p
             IN  [ps1 EXCEPT !.p = p2, !.ret = TRUE,
                             !.res = IF CharAt(str, p2) = NUL THEN lwjsonOK ELSE lwjsonERR]
        ELSE ps1

\* lines 365-514: one iteration of the while loop (its condition holds)
ParseIter(str, ps) ==
    LET ps1 == [ps EXCEPT !.p = prv_skip_blank(str, ps.p).p, !.res = lwjsonOK]
        c == CharAt(str, ps1.p)
    IN  IF ps1.first_check
        THEN FirstCheck(str, ps1)
        ELSE IF c = ","
             THEN [ps1 EXCEPT !.p = ps1.p + 1]
             ELSE IF c = ClosingOf(TokOf(ps1, ps1.to).type)
                  THEN CloseContainer(str, ps1)
                  ELSE NewValue(str, ps1)

\* lines 515-518: the loop ended at the NUL
ParseLoopEnd(ps) ==
    IF ps.to # NULL
    THEN PutTok(ps, ps.to, [TokOf(ps, ps.to) EXCEPT !.token_name = NULL,
                                                     !.token_name_len = 0])
    ELSE ps

\* lines 519-523: the label ret
ParseRet(ps) ==
    [ps EXCEPT !.ret = TRUE,
               !.lw.parsed = IF ps.res = lwjsonOK THEN 1 ELSE ps.lw.parsed]

\* lines 349-357: the locals and the values reset at the very beginning
ParseEntry(lw, tokens) ==
    [lw |-> [lw EXCEPT !.parsed = 0, !.next_free_token_pos = 0,
                       !.first_token = ZeroToken],
     tokens |-> tokens, p |-> 1, to |-> FirstRef, first_check |-> TRUE,
     res |-> lwjsonOK, ret |-> FALSE]

\* lines 359-362: the check of the input text
ParseInputCheck(str, ps) ==
    IF str = NullStr \/ CharAt(str, ps.p) = NUL
    THEN [ps EXCEPT !.res = lwjsonERRJSON, !.ret = TRUE]
    ELSE ps

\* lines 364-523: the while loop and the label ret, run to the return
RECURSIVE ParseRun(_, _)
ParseRun(str, ps) ==
    IF ps.ret
    THEN ps
    ELSE IF CharAt(str, ps.p) # NUL
         THEN LET ps1 == ParseIter(str, ps)
              IN  IF ps1.ret THEN ParseRet(ps1) ELSE ParseRun(str, ps1)
         ELSE ParseRet(ParseLoopEnd(ps))

\* lines 347-524: the whole call, from instance lw with arena tokens
lwjson_parse(lw, tokens, str) ==
    ParseRun(str, ParseInputCheck(str, ParseEntry(lw, tokens)))

\* -------------------------------------------------------------- lwjson_find
\* lines 242-276; p is the pointer into path, the result carries the new
\* *p, the segment (opath, olen) and is_last
prv_create_path_segment(path, p) ==
    LET fail == [ok |-> FALSE, p |-> p, opath |-> NULL, olen |-> 0, is_last |-> FALSE]
        RECURSIVE SegEnd(_)
        SegEnd(s) == IF CharAt(path, s) # NUL /\ CharAt(path, s) # "." THEN SegEnd(s + 1) ELSE s
    IN  IF path = NullStr \/ CharAt(path, p) = NUL
        THEN fail
        ELSE IF CharAt(path, p) = "#"
             THEN IF CharAt(path, p + 1) # "."
                  THEN fail
                  ELSE [ok |-> TRUE, p |-> p + 2, opath |-> p, olen |-> 1,
                        is_last |-> CharAt(path, p) = NUL]
             ELSE LET s == SegEnd(p)
                  IN  [ok |-> TRUE, p |-> s + 1, opath |-> p, olen |-> s - p,
                       is_last |-> CharAt(path, s) = NUL]

\* NameMatches without the comparison of the lengths
NameMatches_NoLength(str, tk, path, seg) ==
    \A i \in 0..(seg.olen - 1) :
        CharAt(str, tk.token_name + i) = CharAt(path, seg.opath + i)

\* line 308: the name of token tk (a slice of the text str) equals the
\* segment (a slice of path); strncmp over zero characters compares equal
NameMatches(str, tk, path, seg) ==
    /\ tk.token_name_len = seg.olen
    /\ \A i \in 0..(seg.olen - 1) :
          CharAt(str, tk.token_name + i) = CharAt(path, seg.opath + i)

\* lines 284-321: the result is a token pointer or NULL.  FindArray and
\* FindObject are the two for loops, t the loop variable.
RECURSIVE prv_find(_, _, _, _, _, _)
RECURSIVE FindArray(_, _, _, _, _, _)
RECURSIVE FindObject(_, _, _, _, _, _, _)
\* FindArray without the loop: only the first child is tried
FindArray_FirstOnly(lw, tokens, str, t, path, p) ==
    IF t = NULL
    THEN NULL
    ELSE prv_find(lw, tokens, str, t, path, p)

FindArray(lw, tokens, str, t, path, p) ==
    IF t = NULL
    THEN NULL
    ELSE LET tmp_t == prv_find(lw, tokens, str, t, path, p)
         IN  IF tmp_t # NULL
             THEN tmp_t
             ELSE FindArray(lw, tokens, str, Tok(lw, tokens, t).next, path, p)

FindObject(lw, tokens, str, t, path, p, seg) ==
    IF t = NULL
    THEN NULL
    ELSE IF NameMatches(str, Tok(lw, tokens, t), path, seg)
         THEN IF seg.is_last
              THEN t
              ELSE LET tmp_t == prv_find(lw, tokens, str, t, path, p)
                   IN  IF tmp_t # NULL
                       THEN tmp_t
                       ELSE FindObject(lw, tokens, str, Tok(lw, tokens, t).next, path, p, seg)
         ELSE FindObject(lw, tokens, str, Tok(lw, tokens, t).next, path, p, seg)

prv_find(lw, tokens, str, parent, path, p) ==
    LET seg == prv_create_path_segment(path, p)
        ptk == Tok(lw, tokens, parent)
    IN  IF ~seg.ok
        THEN NULL
        ELSE IF CharAt(path, seg.opath) = "#" /\ seg.olen = 1
             THEN IF ptk.type # LWJSON_TYPE_ARRAY
                  THEN NULL
                  ELSE FindArray(lw, tokens, str, ptk.first_child, path, seg.p)
             ELSE IF ptk.type # LWJSON_TYPE_OBJECT
                  THEN NULL
                  ELSE FindObject(lw, tokens, str, ptk.first_child, path, seg.p, seg)

\* lwjson_find without the test of flags.parsed
lwjson_find_NoParsedCheck(lw, tokens, str, path) ==
    IF path = NullStr
    THEN NULL
    ELSE prv_find(lw, tokens, str, FirstRef, path, 1)

\* lines 544-550; str is the text the tokens' name slices point into
lwjson_find(lw, tokens, str, path) ==
    IF lw.parsed = 0 \/ path = NullStr
    THEN NULL
    ELSE prv_find(lw, tokens, str, FirstRef, path, 1)

\* ----------------------------------------------- lwjson_init, lwjson_reset
\* lines 330-338: the instance after lwjson_init with an arena of n tokens
lwjson_init(n) ==
    [tokens_len |-> n, next_free_token_pos |-> 0,
     first_token |-> [ZeroToken EXCEPT !.type = LWJSON_TYPE_OBJECT],
     parsed |-> 0]

\* line 333 and line 533: memset of the whole arena
ZeroArena(n) == [i \in 1..n |-> ZeroToken]

\* lwjson_reset without the memset of line 533
lwjson_reset_NoClear(lw, tokens) ==
    [lw |-> lw, tokens |-> tokens]

\* lines 531-535: the instance and the arena after lwjson_reset
lwjson_reset(lw, tokens) ==
    [lw |-> lw, tokens |-> ZeroArena(lw.tokens_len)]

\* ------------------------------------------------------------------ inputs
\* the texts of the spec's and the tests' scenarios
\* {"a":{"b":1},"c":[10,20,{"d":30}]}
TextSpecExample ==
    <<"{", "\"", "a", "\"", ":", "{", "\"", "b", "\"", ":", "1", "}", ",", "\"", "c", "\"", ":", "[", "1", "0", ",", "2", "0", ",", "{", "\"", "d", "\"", ":", "3", "0", "}", "]", "}">>

\* ["a\"b"]
TextEscapedQuote ==
    <<"[", "\"", "a", "\\", "\"", "b", "\"", "]">>

\* ["a\\"]
TextEscapedBackslash ==
    <<"[", "\"", "a", "\\", "\\", "\"", "]">>

\* {"a":1}
TextObject ==
    <<"{", "\"", "a", "\"", ":", "1", "}">>

\*  { "a" : 1 } 
TextObjectBlanks ==
    <<" ", "{", " ", "\"", "a", "\"", " ", ":", " ", "1", " ", "}", " ">>

\* [[1],2]
TextNested ==
    <<"[", "[", "1", "]", ",", "2", "]">>

\* [[1],
TextNestedOpen ==
    <<"[", "[", "1", "]", ",">>

\* [1]x
TextGarbage ==
    <<"[", "1", "]", "x">>

\* true
TextScalar ==
    <<"t", "r", "u", "e">>

\* {"a":1}x
TextObjectGarbage ==
    <<"{", "\"", "a", "\"", ":", "1", "}", "x">>

\* {"a":{},"a":{"b":1}}
TextDupKeys ==
    <<"{", "\"", "a", "\"", ":", "{", "}", ",", "\"", "a", "\"", ":", "{", "\"", "b", "\"", ":", "1", "}", "}">>

\* {"ab":1,"a":2,"a":3}
TextPrefixKeys ==
    <<"{", "\"", "a", "b", "\"", ":", "1", ",", "\"", "a", "\"", ":", "2", ",", "\"", "a", "\"", ":", "3", "}">>

\* [{"a":1},{"d":2}]
TextWildOrder ==
    <<"[", "{", "\"", "a", "\"", ":", "1", "}", ",", "{", "\"", "d", "\"", ":", "2", "}", "]">>

\* ["a\\"}","b"]
TextStringCloser ==
    <<"[", "\"", "a", "\\", "\\", "\"", "}", "\"", ",", "\"", "b", "\"", "]">>

\* {"a":[
TextOpenMember ==
    <<"{", "\"", "a", "\"", ":", "[">>

\* {"a"":1}
TextDoubleQuoteKey ==
    <<"{", "\"", "a", "\"", "\"", ":", "1", "}">>

\* ["a""]
TextDoubleQuoteValue ==
    <<"[", "\"", "a", "\"", "\"", "]">>

ExampleTexts ==
    {TextSpecExample, TextEscapedQuote, TextEscapedBackslash, TextObject,
     TextObjectBlanks, TextNested, TextNestedOpen, TextGarbage, TextScalar,
     TextObjectGarbage, TextDupKeys, TextPrefixKeys, TextWildOrder,
     TextStringCloser, TextOpenMember, TextDoubleQuoteKey,
     TextDoubleQuoteValue}

\* the null text, the empty text and the example texts: the texts of a
\* sequence of calls on one instance
CallTexts == ExampleTexts \cup {NullStr, <<>>, <<" ">>, <<"[">>, <<"[", "]">>}

\* every text of at most MaxLen characters over Alphabet: the texts of a
\* single call
Alphabet == {"[", "]", "{", "}", ",", "1", " ", "\""}

WideTexts == UNION {[1..n -> Alphabet] : n \in 0..MaxLen} \cup {NullStr}

\* an array whose first element is a word of at most MaxLen characters
\* over NumberAlphabet, the array closed or the text ending after the
\* element's comma: the texts that put a number literal, well-formed or
\* not, in front of prv_parse_number
NumberAlphabet == {"-", "+", "0", "1", ".", "e", "E"}

NumberWords == UNION {[1..n -> NumberAlphabet] : n \in 1..MaxLen}

NumberTexts == {<<"[">> \o w \o <<e>> : w \in NumberWords, e \in {"]", ","}}

\* the number of non-root values of TextSpecExample
ExampleTokens == 7

Capacities == 0..MaxTokens \cup {ExampleTokens}

PathA == <<"a">>
PathAB == <<"a", ".", "b">>
PathC == <<"c">>
PathCWildD == <<"c", ".", "#", ".", "d">>
PathCWild == <<"c", ".", "#", ".">>
PathWild == <<"#", ".">>
PathX == <<"x">>

Paths == {NullStr, <<>>, PathA, PathAB, PathC, PathCWildD, PathCWild, PathWild, PathX}

\* ----------------------------------------------------------- state machine
VARIABLES
    lw,          \* the lwjson_t instance (without the arena pointer)
    tokens,      \* the caller's token arena, lw->tokens[0 .. tokens_len-1]
    json_str,    \* the text of the current or the last lwjson_parse
    p,           \* lwjson_parse: the cursor
    to,          \* lwjson_parse: the current container
    first_check, \* lwjson_parse: the root has not been read yet
    res,         \* lwjson_parse: the status; the returned one when pc = "idle"
    pc,          \* "idle" between calls, "loop" inside the while loop
    op,          \* the last call that returned
    path,        \* the path of the last lwjson_find
    found,       \* the result of the last lwjson_find
    calls,       \* the number of lwjson_parse calls so far
    wide,        \* the caller makes one call with any text of WideTexts
    parse_ret    \* what the last lwjson_parse since lwjson_init returned

vars == <<lw, tokens, json_str, p, to, first_check, res, pc, op, path, found,
          calls, wide, parse_ret>>

\* no lwjson_parse has returned
NoRet == -1

\* what a caller can see of a finished parse: the status, the allocation
\* cursor, the flag, the root and the allocated tokens
View(ps) ==
    [res |-> ps.res,
     next_free_token_pos |-> ps.lw.next_free_token_pos,
     parsed |-> ps.lw.parsed,
     first_token |-> ps.lw.first_token,
     used |-> [i \in 1..ps.lw.next_free_token_pos |-> ps.tokens[i]]]

\* the running parse as a record, and the assignment of one to the variables
Running ==
    [lw |-> lw, tokens |-> tokens, p |-> p, to |-> to,
     first_check |-> first_check, res |-> res, ret |-> FALSE]

Becomes(ps) ==
    /\ lw' = ps.lw
    /\ tokens' = ps.tokens
    /\ p' = ps.p
    /\ to' = ps.to
    /\ first_check' = ps.first_check
    /\ res' = ps.res
    /\ pc' = IF ps.ret THEN "idle" ELSE "loop"
    /\ op' = IF ps.ret THEN "parse" ELSE op
    /\ parse_ret' = IF ps.ret THEN ps.res ELSE parse_ret

InitWith(w) ==
    /\ \E n \in (IF w THEN 0..MaxTokens ELSE Capacities) :
          /\ lw = lwjson_init(n)
          /\ tokens = ZeroArena(n)
    /\ json_str = <<>>
    /\ p = 1
    /\ to = FirstRef
    /\ first_check = TRUE
    /\ res = lwjsonOK
    /\ pc = "idle"
    /\ op = "init"
    /\ path = <<>>
    /\ found = NULL
    /\ calls = 0
    /\ wide = w
    /\ parse_ret = NoRet

Init == InitWith(FALSE)

InitWide == InitWith(TRUE)

\* lwjson_init called again on the same arena; the record of the last
\* lwjson_parse and lwjson_find is dropped
Call_init ==
    /\ pc = "idle"
    /\ lw' = lwjson_init(lw.tokens_len)
    /\ tokens' = ZeroArena(lw.tokens_len)
    /\ json_str' = <<>>
    /\ p' = 1
    /\ to' = FirstRef
    /\ first_check' = TRUE
    /\ res' = lwjsonOK
    /\ path' = <<>>
    /\ found' = NULL
    /\ op' = "init"
    /\ parse_ret' = NoRet
    /\ UNCHANGED <<pc, calls, wide>>

\* lwjson_parse up to the while loop (lines 347-362)
Call_parse ==
    /\ pc = "idle"
    /\ calls < (IF wide THEN 1 ELSE MaxCalls)
    /\ \E text \in (IF wide THEN WideTexts ELSE CallTexts) :
          /\ json_str' = text
          /\ Becomes(ParseInputCheck(text, ParseEntry(lw, tokens)))
    /\ calls' = calls + 1
    /\ UNCHANGED <<path, found, wide>>

\* lwjson_parse up to the while loop (lines 347-362), the text being one
\* of NumberTexts
Call_parse_number ==
    /\ pc = "idle"
    /\ calls < 1
    /\ \E text \in NumberTexts :
          /\ json_str' = text
          /\ Becomes(ParseInputCheck(text, ParseEntry(lw, tokens)))
    /\ calls' = calls + 1
    /\ UNCHANGED <<path, found, wide>>

\* one iteration of the while loop (lines 365-514), through ret when it
\* ends the parse
ParseLoop ==
    /\ pc = "loop"
    /\ CharAt(json_str, p) # NUL
    /\ LET ps == ParseIter(json_str, Running)
       IN  Becomes(IF ps.ret THEN ParseRet(ps) ELSE ps)
    /\ UNCHANGED <<json_str, path, found, calls, wide>>

\* the while loop ends at the NUL (lines 515-523)
ParseEnd ==
    /\ pc = "loop"
    /\ CharAt(json_str, p) = NUL
    /\ Becomes(ParseRet(ParseLoopEnd(Running)))
    /\ UNCHANGED <<json_str, path, found, calls, wide>>

Call_reset ==
    /\ pc = "idle"
    /\ LET r == lwjson_reset(lw, tokens)
       IN  /\ lw' = r.lw
           /\ tokens' = r.tokens
    /\ op' = "reset"
    /\ UNCHANGED <<json_str, p, to, first_check, res, pc, path, found, calls, wide,
                   parse_ret>>

Call_find ==
    /\ pc = "idle"
    /\ \E q \in Paths :
          /\ path' = q
          /\ found' = lwjson_find(lw, tokens, json_str, q)
    /\ op' = "find"
    /\ UNCHANGED <<lw, tokens, json_str, p, to, first_check, res, pc, calls, wide,
                   parse_ret>>

Next ==
    \/ Call_init
    \/ Call_parse
    \/ ParseLoop
    \/ ParseEnd
    \/ Call_reset
    \/ Call_find

Spec == Init /\ [][Next]_vars

SpecWide == InitWide /\ [][Next]_vars

\* one lwjson_parse of any text of WideTexts on a fresh instance; a call
\* that has entered the while loop keeps running: lwjson_parse is
\* sequential code that nothing suspends
NextLive ==
    \/ Call_parse
    \/ ParseLoop
    \/ ParseEnd

\* weak fairness of ParseLoop with its enabling condition written out:
\* the action is enabled exactly where its two guards hold, since an
\* iteration always changes pc or p
LoopFairness ==
    \/ []<>(~(pc = "loop" /\ CharAt(json_str, p) # NUL))
    \/ []<><<ParseLoop>>_vars

SpecLive == InitWide /\ [][NextLive]_vars /\ LoopFairness /\ WF_vars(ParseEnd)

\* one lwjson_parse of a number text on a fresh instance
InitNumbers == InitWith(TRUE)

NextNumbers ==
    \/ Call_parse_number
    \/ ParseLoop
    \/ ParseEnd

SpecNumbers == InitNumbers /\ [][NextNumbers]_vars

\* ----------------------------------------------------- the JSON grammar
\* RFC 4627, read independently of the parser above: the document a text
\* denotes.  A node is [type, name, str, int, kids]; name and str are
\* the raw characters between the quotes.

RECURSIVE RefSkip(_, _)
RefSkip(str, i) == IF IsBlank(CharAt(str, i)) THEN RefSkip(str, i + 1) ELSE i

\* i is just after the opening quote; a backslash escapes the character
\* after it
RECURSIVE RefStringEnd(_, _)
RefStringEnd(str, i) ==
    CASE CharAt(str, i) = NUL -> 0
      [] CharAt(str, i) = "\"" -> i
      [] CharAt(str, i) = "\\" ->
            IF CharAt(str, i + 1) = NUL THEN 0 ELSE RefStringEnd(str, i + 2)
      [] OTHER -> RefStringEnd(str, i + 1)

\* the string literal whose opening quote is at i: start and len of its
\* contents, end just after the closing quote
RefString(str, i) ==
    LET e == IF CharAt(str, i) = "\"" THEN RefStringEnd(str, i + 1) ELSE 0
    IN  [ok |-> e # 0, start |-> i + 1, len |-> e - (i + 1), end |-> e + 1]

RECURSIVE RefDigits(_, _)
RefDigits(str, i) == IF IsDigit(CharAt(str, i)) THEN RefDigits(str, i + 1) ELSE i

RECURSIVE RefDecimal(_, _, _)
RefDecimal(str, i, j) ==
    IF i >= j THEN 0 ELSE RefDecimal(str, i, j - 1) * 10 + (Ord(CharAt(str, j - 1)) - 48)

\* the number literal at i
RefNumber(str, i) ==
    LET neg == CharAt(str, i) = "-"
        a == IF neg THEN i + 1 ELSE i
        b == RefDigits(str, a)
        intok == b > a /\ (CharAt(str, a) = "0" => b = a + 1)
        hasfrac == CharAt(str, b) = "."
        c == IF hasfrac THEN RefDigits(str, b + 1) ELSE b
        fracok == hasfrac => c > b + 1
        hasexp == CharAt(str, c) = "e" \/ CharAt(str, c) = "E"
        d == IF hasexp /\ (CharAt(str, c + 1) = "-" \/ CharAt(str, c + 1) = "+")
             THEN c + 2 ELSE c + 1
        e == IF hasexp THEN RefDigits(str, d) ELSE c
        expok == hasexp => e > d
    IN  [ok |-> intok /\ fracok /\ expok, end |-> e,
         isint |-> ~hasfrac /\ ~hasexp,
         int |-> IF neg THEN 0 - RefDecimal(str, a, b) ELSE RefDecimal(str, a, b)]

RefNode(type, name, str, int, kids) ==
    [type |-> type, name |-> name, str |-> str, int |-> int, kids |-> kids]

Slice(str, start, len) == [i \in 1..len |-> CharAt(str, start + i - 1)]

RefFail == [ok |-> FALSE, end |-> 0, node |-> RefNode(0, <<>>, <<>>, 0, <<>>)]

\* RefValue: the value that starts at i.  RefMembers: the members of a
\* container from i on, i at the first character of a member.
RECURSIVE RefValue(_, _)
RECURSIVE RefMembers(_, _, _, _)
RefMembers(str, i, isobj, acc) ==
    LET key == RefString(str, i)
        colon == RefSkip(str, key.end)
        vstart == IF isobj THEN RefSkip(str, colon + 1) ELSE i
        v == RefValue(str, vstart)
        after == RefSkip(str, v.end)
        kid == [v.node EXCEPT !.name = IF isobj THEN Slice(str, key.start, key.len) ELSE <<>>]
    IN  IF isobj /\ (~key.ok \/ CharAt(str, colon) # ":")
        THEN [ok |-> FALSE, end |-> 0, kids |-> <<>>]
        ELSE IF ~v.ok
             THEN [ok |-> FALSE, end |-> 0, kids |-> <<>>]
             ELSE IF CharAt(str, after) = ","
                  THEN RefMembers(str, RefSkip(str, after + 1), isobj, Append(acc, kid))
                  ELSE IF CharAt(str, after) = (IF isobj THEN "}" ELSE "]")
                       THEN [ok |-> TRUE, end |-> after + 1, kids |-> Append(acc, kid)]
                       ELSE [ok |-> FALSE, end |-> 0, kids |-> <<>>]

RefValue(str, i) ==
    LET c == CharAt(str, i)
    IN  CASE c = "{" \/ c = "[" ->
               LET type == IF c = "{" THEN LWJSON_TYPE_OBJECT ELSE LWJSON_TYPE_ARRAY
                   j == RefSkip(str, i + 1)
               IN  IF CharAt(str, j) = ClosingOf(type)
                   THEN [ok |-> TRUE, end |-> j + 1, node |-> RefNode(type, <<>>, <<>>, 0, <<>>)]
                   ELSE LET m == RefMembers(str, j, c = "{", <<>>)
                        IN  IF m.ok
                            THEN [ok |-> TRUE, end |-> m.end,
                                  node |-> RefNode(type, <<>>, <<>>, 0, m.kids)]
                            ELSE RefFail
          [] c = "\"" ->
               LET r == RefString(str, i)
               IN  IF r.ok
                   THEN [ok |-> TRUE, end |-> r.end,
                         node |-> RefNode(LWJSON_TYPE_STRING, <<>>, Slice(str, r.start, r.len), 0, <<>>)]
                   ELSE RefFail
          [] c = "t" /\ StrNCmpEq(str, i, <<"t", "r", "u", "e">>) ->
               [ok |-> TRUE, end |-> i + 4, node |-> RefNode(LWJSON_TYPE_TRUE, <<>>, <<>>, 0, <<>>)]
          [] c = "f" /\ StrNCmpEq(str, i, <<"f", "a", "l", "s", "e">>) ->
               [ok |-> TRUE, end |-> i + 5, node |-> RefNode(LWJSON_TYPE_FALSE, <<>>, <<>>, 0, <<>>)]
          [] c = "n" /\ StrNCmpEq(str, i, <<"n", "u", "l", "l">>) ->
               [ok |-> TRUE, end |-> i + 4, node |-> RefNode(LWJSON_TYPE_NULL, <<>>, <<>>, 0, <<>>)]
          [] c = "-" \/ IsDigit(c) ->
               LET r == RefNumber(str, i)
               IN  IF r.ok
                   THEN [ok |-> TRUE, end |-> r.end,
                         node |-> RefNode(IF r.isint THEN LWJSON_TYPE_NUM_INT
                                                     ELSE LWJSON_TYPE_NUM_REAL,
                                          <<>>, <<>>, IF r.isint THEN r.int ELSE 0, <<>>)]
                   ELSE RefFail
          [] OTHER -> RefFail

\* the document a text denotes: blanks, an object or an array, blanks
RefDoc(str) ==
    IF str = NullStr
    THEN RefFail
    ELSE LET i == RefSkip(str, 1)
             v == RefValue(str, i)
         IN  IF (CharAt(str, i) = "{" \/ CharAt(str, i) = "[") /\ v.ok
                /\ CharAt(str, RefSkip(str, v.end)) = NUL
             THEN v
             ELSE RefFail

WellFormed(str) == RefDoc(str).ok

\* the number of values of a node, the node itself not counted
RECURSIVE NodeValues(_)
RECURSIVE KidsValues(_, _)
KidsValues(kids, k) ==
    IF k > Len(kids) THEN 0 ELSE 1 + NodeValues(kids[k]) + KidsValues(kids, k + 1)

NodeValues(node) == KidsValues(node.kids, 1)

\* token t and the tokens below it are the node: same type, name, payload
\* and, for a container, the same children in the same order
RECURSIVE Iso(_, _, _, _, _)
RECURSIVE IsoChain(_, _, _, _, _, _)
IsoChain(l, tk, str, t, kids, k) ==
    IF k > Len(kids)
    THEN t = NULL
    ELSE /\ t # NULL
         /\ Iso(l, tk, str, t, kids[k])
         /\ IsoChain(l, tk, str, Tok(l, tk, t).next, kids, k + 1)

Iso(l, tk, str, t, node) ==
    LET x == Tok(l, tk, t)
    IN  /\ x.type = node.type
        /\ x.token_name_len = Len(node.name)
        /\ Slice(str, x.token_name, x.token_name_len) = node.name
        /\ (node.type = LWJSON_TYPE_STRING =>
                Slice(str, x.token_value, x.token_value_len) = node.str)
        /\ (node.type = LWJSON_TYPE_NUM_INT => x.num_int = node.int)
        /\ (node.type \in {LWJSON_TYPE_OBJECT, LWJSON_TYPE_ARRAY} =>
                IsoChain(l, tk, str, x.first_child, node.kids, 1))

\* ------------------------------------------------------------------ claims
\* lwjson_parse has just returned
Returned == pc = "idle" /\ op = "parse"

\* the document of the text just parsed
Doc == RefDoc(json_str).node

\* nothing but blanks from the cursor to the end of the text
OnlyBlanksFrom(str, i) == \A k \in i..Len(str) : IsBlank(str[k])

\* the first non-blank character of a text, NUL when there is none
FirstNonBlank(str) == IF str = NullStr THEN NUL ELSE CharAt(str, RefSkip(str, 1))

\* C1: lwjson_parse returns lwjsonOK, and sets flags.parsed, only when the
\* root container was closed (no container is open any more) and only
\* blanks follow; every other return leaves flags.parsed at 0.
C1_OkOnlyAfterRootClose ==
    Returned =>
        /\ (res = lwjsonOK => to = NULL /\ OnlyBlanksFrom(json_str, p))
        /\ (res = lwjsonOK => lw.parsed = 1)
        /\ (res # lwjsonOK => lw.parsed = 0)

\* the key paths of a node: the sequences of member names that lead from
\* it through nested objects to a value
RECURSIVE KeyPaths(_)
KeyPaths(node) ==
    IF node.type # LWJSON_TYPE_OBJECT
    THEN {}
    ELSE UNION {{<<node.kids[k].name>>}
                  \cup {<<node.kids[k].name>> \o q : q \in KeyPaths(node.kids[k])}
                : k \in 1..Len(node.kids)}

\* the values a key path leads to
RECURSIVE NodesAt(_, _)
NodesAt(node, kp) ==
    IF kp = <<>>
    THEN {node}
    ELSE IF node.type # LWJSON_TYPE_OBJECT
         THEN {}
         ELSE UNION {NodesAt(node.kids[k], Tail(kp))
                     : k \in {j \in 1..Len(node.kids) : node.kids[j].name = Head(kp)}}

\* a key that a path segment can spell
Addressable(key) == key # <<>> /\ \A i \in 1..Len(key) : key[i] # "." /\ key[i] # "#"

\* the keys of a key path joined by dots
RECURSIVE PathText(_)
PathText(kp) ==
    IF Len(kp) = 1 THEN kp[1] ELSE kp[1] \o <<".">> \o PathText(Tail(kp))

\* C2: a well-formed document that fits the arena parses with lwjsonOK and
\* lwjson_find returns, for every key path of the document, a token equal
\* in kind and payload to a value at that path.
C2_WellFormedParsesAndFinds ==
    (Returned /\ WellFormed(json_str) /\ NodeValues(Doc) <= lw.tokens_len) =>
        /\ res = lwjsonOK
        /\ \A kp \in {q \in KeyPaths(Doc) : \A i \in 1..Len(q) : Addressable(q[i])} :
              LET f == lwjson_find(lw, tokens, json_str, PathText(kp))
              IN  /\ f # NULL
                  /\ \E node \in NodesAt(Doc, kp) : Iso(lw, tokens, json_str, f, node)

\* C3: lwjson_find returns none when the last lwjson_parse since
\* lwjson_init did not return lwjsonOK, when there was none, and when the
\* path is null or empty.
C3_FindNoneUnlessParsed ==
    (pc = "idle" /\ op = "find") =>
        ((parse_ret # lwjsonOK \/ path = NullStr \/ path = <<>>) => found = NULL)

\* C3 happens: a parse failed after an earlier one, leaving a tree in which
\* the path would be found, and lwjson_find returned none
C3_Witness ==
    /\ pc = "idle"
    /\ op = "find"
    /\ calls >= 2
    /\ parse_ret \notin {lwjsonOK, NoRet}
    /\ prv_find(lw, tokens, json_str, FirstRef, path, 1) # NULL
    /\ found = NULL

\* C4: the allocation cursor never exceeds tokens_len and the arena keeps
\* its size; a well-formed document with more values than tokens_len
\* returns lwjsonERRMEM, one that fits returns lwjsonOK.
C4_ArenaBoundAndExhaustion ==
    /\ lw.next_free_token_pos <= lw.tokens_len
    /\ DOMAIN tokens = 1..lw.tokens_len
    /\ (Returned /\ WellFormed(json_str)) =>
          res = (IF NodeValues(Doc) > lw.tokens_len THEN lwjsonERRMEM ELSE lwjsonOK)

\* C5: lwjson_parse returns lwjsonOK, lwjsonERRJSON or lwjsonERRMEM, and
\* lwjsonERRMEM only when the root was read and the arena is full.
C5_ThreeStatuses ==
    Returned =>
        /\ res \in {lwjsonOK, lwjsonERRJSON, lwjsonERRMEM}
        /\ (res = lwjsonERRMEM =>
               /\ lw.next_free_token_pos = lw.tokens_len
               /\ lw.first_token.type \in {LWJSON_TYPE_OBJECT, LWJSON_TYPE_ARRAY})

\* C6: a text whose first non-blank character is neither '{' nor '[' (the
\* null text, the empty text, blanks only, a bare scalar) returns
\* lwjsonERRJSON.
C6_BadRootIsFormatError ==
    (Returned /\ FirstNonBlank(json_str) \notin {"{", "["}) => res = lwjsonERRJSON

\* C7: once the root is closed, lwjson_parse returns lwjsonOK when only
\* blanks follow and lwjsonERRJSON when anything else follows.
C7_AfterRootClose ==
    (Returned /\ to = NULL) =>
        res = (IF OnlyBlanksFrom(json_str, p) THEN lwjsonOK ELSE lwjsonERRJSON)

\* C8: lwjson_reset leaves every arena slot zero and the allocation cursor
\* at 0, and keeps tokens_len.
C8_ResetClearsArena ==
    [][Call_reset =>
          /\ tokens' = ZeroArena(lw.tokens_len)
          /\ lw'.next_free_token_pos = 0
          /\ lw'.tokens_len = lw.tokens_len]_vars

\* every token pointer of the root and of the allocated tokens refers to
\* the root or to an allocated token
ViewClosed ==
    \A r \in {FirstRef} \cup 1..lw.next_free_token_pos :
        /\ Tok(lw, tokens, r).next \in {NULL, FirstRef} \cup 1..lw.next_free_token_pos
        /\ Tok(lw, tokens, r).first_child \in {NULL} \cup 1..lw.next_free_token_pos

\* C9: whatever was parsed or reset before, lwjson_parse produces the
\* status, the allocation cursor and the token tree that the same text
\* produces on a freshly initialised instance of the same capacity.
C9_ParseIgnoresHistory ==
    Returned =>
        /\ View([res |-> res, lw |-> lw, tokens |-> tokens])
             = View(lwjson_parse(lwjson_init(lw.tokens_len),
                                 ZeroArena(lw.tokens_len), json_str))
        /\ ViewClosed

\* C9 happens: a later parse succeeded on an arena that still holds tokens
\* of an earlier parse beyond its own
C9_Witness ==
    /\ Returned
    /\ calls >= 2
    /\ res = lwjsonOK
    /\ lw.next_free_token_pos >= 1
    /\ \E i \in (lw.next_free_token_pos + 1)..lw.tokens_len : tokens[i] # ZeroToken

\* C10: a string literal ends at the first quote preceded by an even number
\* of backslashes; the token of a first string value or first key holds the
\* raw contents, starting right after the opening quote; a literal that is
\* not closed is lwjsonERRJSON.
C10_StringExtent ==
    (/\ Returned
     /\ lw.tokens_len >= 1
     /\ CharAt(json_str, 1) \in {"[", "{"}
     /\ CharAt(json_str, 2) = "\"") =>
        LET r == RefString(json_str, 2)
            t == tokens[1]
        IN  IF ~r.ok
            THEN res = lwjsonERRJSON
            ELSE IF CharAt(json_str, 1) = "["
                 THEN /\ t.type = LWJSON_TYPE_STRING
                      /\ t.token_value = 3
                      /\ t.token_value_len = r.len
                 ELSE /\ t.token_name = 3
                      /\ t.token_name_len = r.len

\* the text is an array that starts with one word over NumberAlphabet and
\* ends after the ']' or ',' that follows it, and the word
IsNumberText(str) ==
    /\ str # NullStr
    /\ Len(str) >= 3
    /\ str[1] = "["
    /\ str[Len(str)] \in {"]", ","}
    /\ \A i \in 2..(Len(str) - 1) : str[i] \in NumberAlphabet

NumberWord(str) == Slice(str, 2, Len(str) - 2)

\* the index of the first character of a word after an optional '-'
AfterSign(w) == IF CharAt(w, 1) = "-" THEN 2 ELSE 1

\* the integer part of the word has a leading zero followed by a digit
LeadingZero(w) == CharAt(w, AfterSign(w)) = "0" /\ IsDigit(CharAt(w, AfterSign(w) + 1))

\* 0, 0.1, 0e1, -0
ZeroLiterals == {<<"0">>, <<"0", ".", "1">>, <<"0", "e", "1">>, <<"-", "0">>}

\* C11: a document whose value is a number literal with a leading zero
\* followed by another digit (01, -01, 00) returns lwjsonERRJSON; the
\* literals 0, 0.1, 0e1 and -0 are accepted.
C11_LeadingZeroRejected ==
    (Returned /\ lw.tokens_len >= 1 /\ IsNumberText(json_str)) =>
        /\ (LeadingZero(NumberWord(json_str)) => res = lwjsonERRJSON)
        /\ (NumberWord(json_str) \in ZeroLiterals => res = lwjsonOK)

\* the word has a '.' or an exponent
HasFracOrExp(w) == \E i \in 1..Len(w) : w[i] \in {".", "e", "E"}

\* the decimal value of the digits of a word, negated after a leading '-'
SignedDecimal(w) ==
    IF CharAt(w, 1) = "-"
    THEN 0 - RefDecimal(w, 2, Len(w) + 1)
    ELSE RefDecimal(w, 1, Len(w) + 1)

\* C12: the token of an accepted number literal is LWJSON_TYPE_NUM_INT
\* exactly when the literal has no '.' and no 'e'/'E', and
\* LWJSON_TYPE_NUM_REAL otherwise; the integer stored is the decimal value
\* of the digits, negated when the literal starts with '-'.
C12_NumberKindAndValue ==
    (Returned /\ res = lwjsonOK /\ IsNumberText(json_str)) =>
        /\ lw.next_free_token_pos = 1
        /\ IF HasFracOrExp(NumberWord(json_str))
           THEN tokens[1].type = LWJSON_TYPE_NUM_REAL
           ELSE /\ tokens[1].type = LWJSON_TYPE_NUM_INT
                /\ tokens[1].num_int = SignedDecimal(NumberWord(json_str))

\* C12 happens: -10 was parsed as the integer -10
C12_Witness ==
    /\ Returned
    /\ res = lwjsonOK
    /\ json_str = <<"[", "-", "1", "0", "]">>
    /\ tokens[1].type = LWJSON_TYPE_NUM_INT
    /\ tokens[1].num_int = 0 - 10

\* the root and the allocated tokens
Used == {FirstRef} \cup 1..lw.next_free_token_pos

\* the sibling chain that starts at token t, in order
RECURSIVE ChildSeq(_)
ChildSeq(t) == IF t = NULL THEN <<>> ELSE <<t>> \o ChildSeq(Tok(lw, tokens, t).next)

\* the children of token r, in sibling order
Children(r) == ChildSeq(Tok(lw, tokens, r).first_child)

\* the raw name of token t
NameOf(t) == Slice(json_str, Tok(lw, tokens, t).token_name, Tok(lw, tokens, t).token_name_len)

\* the search of path q below token r
FindBelow(r, q) == prv_find(lw, tokens, json_str, r, q, 1)

\* lwjson_find has just returned, the last lwjson_parse having returned
\* lwjsonOK and its tree not having been cleared since: lwjson_reset
\* zeroes every token, a parse that returns lwjsonOK leaves none of its
\* tokens zero
FoundAfterOk ==
    /\ pc = "idle"
    /\ op = "find"
    /\ parse_ret = lwjsonOK
    /\ \A i \in 1..lw.next_free_token_pos : tokens[i] # ZeroToken

\* what a path ending at the wildcard addresses: the first child of the
\* array a, none when a is none or not an array
FirstElement(a) ==
    IF a = NULL
    THEN NULL
    ELSE IF Tok(lw, tokens, a).type # LWJSON_TYPE_ARRAY
         THEN NULL
         ELSE Tok(lw, tokens, a).first_child

\* C13: with the wildcard as the last segment ('#.' and 'c.#.'),
\* lwjson_find returns the first child of the addressed array, and none
\* only when the array is empty or the addressed token is not an array.
C13_WildcardLast ==
    FoundAfterOk =>
        /\ (path = PathWild => found = FirstElement(FirstRef))
        /\ (path = PathCWild =>
               found = FirstElement(lwjson_find(lw, tokens, json_str, PathC)))

\* the result of the search of q on the first token of kids, from index k
\* on, for which that search succeeds
RECURSIVE FirstHit(_, _, _)
FirstHit(kids, q, k) ==
    IF k > Len(kids)
    THEN NULL
    ELSE IF FindBelow(kids[k], q) # NULL
         THEN FindBelow(kids[k], q)
         ELSE FirstHit(kids, q, k + 1)

\* the paths that follow a wildcard
Remainders == {<<"d">>, <<"a">>, <<"b">>, PathAB, <<"#", ".", "d">>}

\* C14: below any token, the search of '#.' followed by a non-empty
\* remainder is none when the token is not an array, and otherwise the
\* result of the remainder's search on the first child, in sibling order,
\* on which that search succeeds; 'c.#.d' on the spec's example is the
\* token with integer value 30.
C14_WildcardThenRemainder ==
    /\ (Returned /\ res = lwjsonOK) =>
          \A r \in Used : \A q \in Remainders :
              FindBelow(r, <<"#", ".">> \o q)
                = IF Tok(lw, tokens, r).type # LWJSON_TYPE_ARRAY
                  THEN NULL
                  ELSE FirstHit(Children(r), q, 1)
    /\ (FoundAfterOk /\ json_str = TextSpecExample /\ path = PathCWildD
        /\ lw.next_free_token_pos = ExampleTokens) =>
          /\ found # NULL
          /\ tokens[found].type = LWJSON_TYPE_NUM_INT
          /\ tokens[found].num_int = 30

\* C14 happens: 'c.#.d' skipped the elements 10 and 20 and returned the
\* token of 30
C14_Witness ==
    /\ FoundAfterOk
    /\ json_str = TextSpecExample
    /\ path = PathCWildD
    /\ found = ExampleTokens
    /\ tokens[found].num_int = 30
    /\ Len(Children(lwjson_find(lw, tokens, json_str, PathC))) = 3

\* the first token of kids, from index k on, whose name is key
RECURSIVE FirstNamed(_, _, _)
FirstNamed(kids, key, k) ==
    IF k > Len(kids)
    THEN NULL
    ELSE IF NameOf(kids[k]) = key THEN kids[k] ELSE FirstNamed(kids, key, k + 1)

\* the keys searched for: a, b, ab, x, d
Keys == {<<"a">>, <<"b">>, <<"a", "b">>, <<"x">>, <<"d">>}

\* C15: below any token, the search of a literal key as the last segment
\* is none when the token is not an object, and otherwise the first child,
\* in sibling order, whose name is exactly the key (none when there is
\* none); on the spec's example 'a.b' is the integer 1 and 'x' is none.
C15_LastKeySegment ==
    /\ (Returned /\ res = lwjsonOK) =>
          \A r \in Used : \A key \in Keys :
              FindBelow(r, key)
                = IF Tok(lw, tokens, r).type # LWJSON_TYPE_OBJECT
                  THEN NULL
                  ELSE FirstNamed(Children(r), key, 1)
    /\ (FoundAfterOk /\ json_str = TextSpecExample
        /\ lw.next_free_token_pos = ExampleTokens) =>
          /\ (path = PathAB =>
                 /\ found # NULL
                 /\ tokens[found].type = LWJSON_TYPE_NUM_INT
                 /\ tokens[found].num_int = 1)
          /\ (path = PathX => found = NULL)

\* C15 happens: in {"ab":1,"a":2,"a":3} the key a was found at the second
\* member, after the longer key ab and before the duplicate
C15_Witness ==
    /\ FoundAfterOk
    /\ json_str = TextPrefixKeys
    /\ path = PathA
    /\ found = 2
    /\ tokens[found].num_int = 2
    /\ Len(Children(FirstRef)) = 3

\* C16: for the path 'a.b', lwjson_find returns what the search of 'b'
\* returns below the first child of the root named a, and none when that
\* search finds nothing, whatever later children are named a.
C16_FirstMatchOnly ==
    (FoundAfterOk /\ path = PathAB) =>
        found = IF lw.first_token.type # LWJSON_TYPE_OBJECT
                THEN NULL
                ELSE IF FirstNamed(Children(FirstRef), <<"a">>, 1) = NULL
                     THEN NULL
                     ELSE FindBelow(FirstNamed(Children(FirstRef), <<"a">>, 1), <<"b">>)

\* C17: when lwjson_parse returns lwjsonOK, the root's next is empty and
\* the next of every allocated token is empty or a token allocated after it
\* (the value that follows it; its parent and the root come before it)
\* that is not the first child of any container.
C17_NoParentLeak ==
    (Returned /\ res = lwjsonOK) =>
        /\ lw.first_token.next = NULL
        /\ \A r \in 1..lw.next_free_token_pos :
              \/ tokens[r].next = NULL
              \/ /\ tokens[r].next \in (r + 1)..lw.next_free_token_pos
                 /\ \A c \in Used :
                       Tok(lw, tokens, c).type \in {LWJSON_TYPE_OBJECT, LWJSON_TYPE_ARRAY}
                           => Tok(lw, tokens, c).first_child # tokens[r].next

\* the tokens met from the tokens of stack through first-child (of
\* containers) and next links, in depth-first order, at most fuel of them
RECURSIVE Walk(_, _, _)
Walk(stack, acc, fuel) ==
    IF stack = <<>> \/ fuel = 0
    THEN acc
    ELSE LET x == Tok(lw, tokens, Head(stack))
             after == IF x.next # NULL THEN <<x.next>> \o Tail(stack) ELSE Tail(stack)
             below == IF x.type \in {LWJSON_TYPE_OBJECT, LWJSON_TYPE_ARRAY}
                         /\ x.first_child # NULL
                      THEN <<x.first_child>> \o after
                      ELSE after
         IN  Walk(below, Append(acc, Head(stack)), fuel - 1)

\* C18: when lwjson_parse returns lwjsonOK, walking the tree from the root
\* meets the allocated tokens, each once and in the order of allocation
\* (document order), and nothing else; the text is a JSON document and the
\* tree is that document.
C18_TreeIsDocument ==
    (Returned /\ res = lwjsonOK) =>
        /\ Walk(<<FirstRef>>, <<>>, lw.next_free_token_pos + 2)
             = <<FirstRef>> \o [i \in 1..lw.next_free_token_pos |-> i]
        /\ WellFormed(json_str)
        /\ Iso(lw, tokens, json_str, FirstRef, Doc)

\* a comma that does not separate two elements, or an element that follows
\* a container without a comma, from index i on; prev is the last
\* character met outside string literals ("]" for either closing
\* delimiter, "v" for a scalar, NUL at the start)
RECURSIVE CommaScan(_, _, _)
CommaScan(str, i, prev) ==
    LET c == CharAt(str, i)
    IN  CASE c = NUL -> FALSE
          [] IsBlank(c) -> CommaScan(str, i + 1, prev)
          [] c = "," -> prev \in {"[", "{", ",", NUL} \/ CommaScan(str, i + 1, ",")
          [] c = "]" \/ c = "}" -> prev = "," \/ CommaScan(str, i + 1, "]")
          [] c = "[" \/ c = "{" -> prev = "]" \/ CommaScan(str, i + 1, c)
          [] c = ":" -> CommaScan(str, i + 1, ":")
          [] c = "\"" ->
                \/ prev = "]"
                \/ (RefString(str, i).ok /\ CommaScan(str, RefString(str, i).end, "v"))
          [] OTHER -> prev = "]" \/ CommaScan(str, i + 1, "v")

\* C19: a text with a comma before the first element, two commas in a row,
\* a comma before a closing delimiter, or an element that follows a
\* container without a comma, does not return lwjsonOK.
C19_CommaOnlyBetweenElements ==
    (Returned /\ json_str # NullStr /\ CommaScan(json_str, 1, NUL)) => res # lwjsonOK

\* a closing delimiter, from index i on, that is not the one of the
\* innermost open container; stack holds the open containers' closing
\* delimiters, innermost first
RECURSIVE CloserScan(_, _, _)
CloserScan(str, i, stack) ==
    LET c == CharAt(str, i)
    IN  CASE c = NUL -> FALSE
          [] c = "[" -> CloserScan(str, i + 1, <<"]">> \o stack)
          [] c = "{" -> CloserScan(str, i + 1, <<"}">> \o stack)
          [] c = "]" \/ c = "}" ->
                IF stack = <<>>
                THEN FALSE
                ELSE Head(stack) # c \/ CloserScan(str, i + 1, Tail(stack))
          [] c = "\"" ->
                RefString(str, i).ok /\ CloserScan(str, RefString(str, i).end, stack)
          [] OTHER -> CloserScan(str, i + 1, stack)

\* the opening minus the closing delimiters outside string literals in
\* the text before index upto, counted from index i with d so far
RECURSIVE OpenCount(_, _, _, _)
OpenCount(str, i, upto, d) ==
    LET c == CharAt(str, i)
    IN  IF i >= upto \/ c = NUL
        THEN d
        ELSE CASE c = "[" \/ c = "{" -> OpenCount(str, i + 1, upto, d + 1)
               [] c = "]" \/ c = "}" -> OpenCount(str, i + 1, upto, d - 1)
               [] c = "\"" ->
                     IF RefString(str, i).ok /\ RefString(str, i).end <= upto
                     THEN OpenCount(str, RefString(str, i).end, upto, d)
                     ELSE d
               [] OTHER -> OpenCount(str, i + 1, upto, d)

\* the containers from t up through the parent references
RECURSIVE ParentChain(_)
ParentChain(t) == IF t = NULL THEN <<>> ELSE <<t>> \o ParentChain(Tok(lw, tokens, t).next)

\* C20: a text in which a closing delimiter meets an innermost open
\* container of the other kind does not return lwjsonOK; inside the loop
\* the parent references lead from the current container to the root, in
\* as many steps as containers are open below the root in the text read
\* so far.
C20_CloseMatchesAndDepth ==
    /\ (Returned /\ json_str # NullStr /\ CloserScan(json_str, 1, <<>>)) => res # lwjsonOK
    /\ pc = "loop" =>
          /\ to # NULL
          /\ ParentChain(to)[Len(ParentChain(to))] = FirstRef
          /\ Len(ParentChain(to)) - 1
               = IF first_check THEN 0 ELSE OpenCount(json_str, 1, p, 0) - 1

\* token r is in the child chain of a token of kind Object
MemberOfObject(r) ==
    \E c \in Used :
        /\ Tok(lw, tokens, c).type = LWJSON_TYPE_OBJECT
        /\ \E k \in 1..Len(Children(c)) : Children(c)[k] = r

\* the name of token tk is the contents of the string literal that opens
\* right before it
NameIsKey(tk) ==
    /\ tk.token_name # NULL
    /\ RefString(json_str, tk.token_name - 1).ok
    /\ tk.token_name_len = RefString(json_str, tk.token_name - 1).len

\* C21: when lwjson_parse returns lwjsonOK, the root has no name, every
\* token in the child chain of an object has its name set to the key
\* between the quotes, and every other token has token_name empty and
\* token_name_len 0.
C21_NameOnlyForMembers ==
    (Returned /\ res = lwjsonOK) =>
        /\ lw.first_token.token_name = NULL
        /\ lw.first_token.token_name_len = 0
        /\ \A r \in 1..lw.next_free_token_pos :
              IF MemberOfObject(r)
              THEN NameIsKey(tokens[r])
              ELSE tokens[r].token_name = NULL /\ tokens[r].token_name_len = 0

\* the sibling chain from token t reaches an empty next in at most fuel
\* steps
RECURSIVE ChainEnds(_, _)
ChainEnds(t, fuel) ==
    \/ t = NULL
    \/ (fuel > 0 /\ ChainEnds(Tok(lw, tokens, t).next, fuel - 1))

\* the cursor is inside the text or at its terminating NUL
CursorInText == json_str = NullStr \/ (p >= 1 /\ p <= Len(json_str) + 1)

\* the walk of line 427 over the children of the current container ends
SiblingWalkEnds ==
    pc = "loop" =>
        /\ to # NULL
        /\ ChainEnds(Tok(lw, tokens, to).first_child, lw.next_free_token_pos)

\* C22: every iteration of the loop ends the parse or moves the cursor
\* forward, the cursor never passes the terminating NUL, the chain of the
\* current container's children always ends, and a parse that entered the
\* loop returns.
C22_ParseTerminates ==
    /\ [][pc = "loop" => (pc' = "idle" \/ p' > p)]_vars
    /\ [](CursorInText /\ SiblingWalkEnds)
    /\ (pc = "loop" ~> pc = "idle")

\* C22 happens: a parse ran through a whole text of several characters,
\* walked a chain of siblings to append a second child, and returned
C22_Witness ==
    /\ Returned
    /\ res = lwjsonOK
    /\ Len(json_str) >= 3
    /\ p = Len(json_str) + 1
    /\ Len(Children(FirstRef)) >= 2
    /\ Children(FirstRef)[1] = 1
    /\ Children(FirstRef)[2] = 2

\* the first character after the string literal that opens at index 2 and
\* the blanks that follow it
AfterFirstString(str) == CharAt(str, RefSkip(str, RefString(str, 2).end))

\* C23: when the text opens an object whose first key is not followed,
\* after optional blanks, by ':', or an array whose first string value is
\* not followed, after optional blanks, by ',', ']' or '}', lwjson_parse
\* returns lwjsonERRJSON.
C23_NothingAfterClosingQuote ==
    (/\ Returned
     /\ lw.tokens_len >= 1
     /\ CharAt(json_str, 1) \in {"[", "{"}
     /\ CharAt(json_str, 2) = "\""
     /\ RefString(json_str, 2).ok) =>
        /\ (CharAt(json_str, 1) = "{" /\ AfterFirstString(json_str) # ":"
               => res = lwjsonERRJSON)
        /\ (CharAt(json_str, 1) = "[" /\ AfterFirstString(json_str) \notin {",", "]", "}"}
               => res = lwjsonERRJSON)

\* the paths searched for after lwjson_reset: those of Paths and paths
\* with empty segments
ResetPaths ==
    Paths \cup {<<".">>, <<".", "a">>, <<"a", ".">>, <<".", ".">>,
                <<"#", ".", "a">>, <<"#", ".", ".">>, <<"#", ".", "#", ".">>}

\* C24: right after lwjson_reset, and so until the next lwjson_parse or
\* lwjson_init (lwjson_find changes nothing), lwjson_find returns none for
\* every path; a lwjson_find on a cleared arena returned none.
C24_ResetDiscardsTree ==
    /\ (pc = "idle" /\ op = "reset") =>
          \A q \in ResetPaths : lwjson_find(lw, tokens, json_str, q) = NULL
    /\ (pc = "idle" /\ op = "find" /\ tokens = ZeroArena(lw.tokens_len)) =>
          found = NULL

\* C24 happens: {"a":1} was parsed, lwjson_reset cleared the arena while
\* flags.parsed stayed set, and lwjson_find of a returned none
C24_Witness ==
    /\ pc = "idle"
    /\ op = "find"
    /\ parse_ret = lwjsonOK
    /\ lw.parsed = 1
    /\ json_str = TextObject
    /\ lw.next_free_token_pos = 1
    /\ tokens = ZeroArena(lw.tokens_len)
    /\ path = PathA
    /\ found = NULL

====
